---- MODULE Spec2Model ----
(***************************************************************************)
(* Dialogue-to-audio pipeline of fish-speech: generate_dialog.py (one TTS  *)
(* request per turn) and generate_dialog_batch.py (one request per role).  *)
(* The state is the output directory tree, the locals of the running       *)
(* process, and a history of the requests and writes of the conversation   *)
(* being processed.  The TTS service is the environment: it answers every  *)
(* request with 200, with another status, or not at all (requests.post     *)
(* raises).  Taken as given: the reference catalog is not empty, every     *)
(* line of the input file is a well-formed record, and the audio of a 200  *)
(* answer decodes as WAV.                                                  *)
(***************************************************************************)
EXTENDS Integers, Sequences, FiniteSets, TLC

\* ---------------------------------------------------------------- bounds
MaxRecords == 2      \* lines of the input file
MaxExchanges == 2    \* exchanges of one conversation record
MaxRuns == 2         \* process starts over the same output directory
MaxBuffers == 3      \* buffers carried by one batch response
MaxFaults == 2       \* faults of the service in one behaviour
MaxClips == 3        \* clips per list given to the assembler on its own

\* ------------------------------------------------------ program constants
SilenceMs == 500     \* AudioSegment.silent(duration=500)
Seed == 42           \* random.seed(42), batch variant only

ConvIds == {"c1", "c2"}
ReferenceIds == <<"v1", "v2">>          \* os.listdir order of the catalog
Modes == {"single", "batch"}
ErrorStatuses == {500}
UnseededStates == {0, 1}                \* random source seeded from the OS

\* -------------------------------------------------------------- the input
\* An exchange is a dict with the key "user", the key "assistant" or both.
Exchange(e, kind) ==
    CASE kind = "U"  -> [user |-> <<"u", e>>]
      [] kind = "A"  -> [assistant |-> <<"a", e>>]
      [] kind = "UA" -> [user |-> <<"u", e>>, assistant |-> <<"a", e>>]

Shapes == UNION {[1..n -> {"U", "A", "UA"}] : n \in 1..MaxExchanges}
DataOf(shape) == [e \in 1..Len(shape) |-> Exchange(e, shape[e])]
Conversations == {[id |-> c, data |-> DataOf(s)] : c \in ConvIds, s \in Shapes}
\* The files: the first line names "c1" (an id is only a directory name),
\* and the records of one file carry the same exchanges (conversations are
\* processed one after the other into directories of their own, so what
\* differs between the lines of a file is the id).
InputFiles ==
    {f \in UNION {[1..n -> Conversations] : n \in 1..MaxRecords} :
        /\ f[1].id = "c1"
        /\ \A i, j \in 1..Len(f) : f[i].data = f[j].data}

\* ------------------------------------------------------------- the files
\* A conversation directory: the clips by name (role, 1-based turn), the
\* combined track, the manifest and the error log.  An absent file is <<>>,
\* a present one <<content>>.
EmptyDir == [exists |-> FALSE, clips |-> <<>>, combined |-> <<>>,
             manifest |-> <<>>, errlog |-> <<>>]

ClipName(role, n) == <<role, n>>                 \* f"{role}_turn_{idx + 1}.wav"
\* the k-th audio the service returns for a role: opaque bytes, named
Wav(role, k) == [kind |-> "wav", role |-> role, k |-> k]
Silent(ms) == [kind |-> "silent", ms |-> ms]

WriteClip(dir, name, bytes) == [dir EXCEPT !.clips = (name :> bytes) @@ @]

\* mutants of the log write: nothing is written, and the file is opened
\* with "w", which empties it before the record is written
AppendError_Dropped(dir, rec) == dir
AppendError_Truncating(dir, rec) == [dir EXCEPT !.errlog = <<rec>>]

AppendError(dir, rec) == [dir EXCEPT !.errlog = Append(@, rec)]

\* ------------------------------------------------------- pure operations
\* mutants of the done test: the manifest looked for where it never is, and
\* a directory holding an error log taken as not done
IsDone_WrongPath(dir) == dir.exists /\ FALSE
IsDone_UnlessErrorLog(dir) ==
    dir.exists /\ dir.manifest # <<>> /\ dir.errlog = <<>>

\* os.path.exists(conversation_dir) and os.path.isfile(.../{id}.json)
IsDone(dir) == dir.exists /\ dir.manifest # <<>>

RECURSIVE CollectTurns(_, _)
CollectTurns(data, role) ==
    IF data = <<>> THEN <<>>
    ELSE (IF role \in DOMAIN Head(data) THEN <<Head(data)[role]>> ELSE <<>>)
         \o CollectTurns(Tail(data), role)

\* random.choice(reference_ids) on the state of the random source: the
\* state is the seed and the number of draws made since seeding, and the
\* choice a fixed function of the two that stands for the generator (it
\* gives equal and different voices to the two roles).
RandomChoice(r) ==
    ReferenceIds[((r.seed + (r.draws \div 3) + r.draws * (r.draws \div 4))
                  % Len(ReferenceIds)) + 1]
Advance(r) == [r EXCEPT !.draws = @ + 1]

\* mutant: the hint of the first turn is given to the second one
UseMemoryCache_OffByOne(idx) == IF idx = 1 THEN "never" ELSE "on-demand"

UseMemoryCache(idx) == IF idx = 0 THEN "never" ELSE "on-demand"

\* mutant: only the user list is tested
ShouldAbort_UserOnly(user_audio_files, assistant_audio_files) ==
    user_audio_files = <<>>

\* not user_audio_files or not assistant_audio_files
ShouldAbort(user_audio_files, assistant_audio_files) ==
    user_audio_files = <<>> \/ assistant_audio_files = <<>>

\* s[n:]
Slice(s, n) == SubSeq(s, n + 1, Len(s))

\* the zip loop: user clip, silence, assistant clip, silence
RECURSIVE ZipLoop(_, _)
ZipLoop(U, A) ==
    IF U = <<>> \/ A = <<>> THEN <<>>
    ELSE <<Head(U), Silent(SilenceMs), Head(A), Silent(SilenceMs)>>
         \o ZipLoop(Tail(U), Tail(A))

\* mutant: the leftover of the assistant list is dropped
RemainingAudioFiles_UserOnly(U, A) == Slice(U, Len(A))

\* user_audio_files[len(assistant):] or assistant_audio_files[len(user):]
RemainingAudioFiles(U, A) ==
    IF Slice(U, Len(A)) # <<>> THEN Slice(U, Len(A)) ELSE Slice(A, Len(U))

\* the segments of the combined track, for the clip contents U and A
MergeAudio(U, A) == ZipLoop(U, A) \o RemainingAudioFiles(U, A)

\* AudioSegment.from_wav(path) for every path of a list
ReadClips(dir, paths) == [i \in 1..Len(paths) |-> dir.clips[paths[i]]]

\* mutant: the file name is not shifted to 1-based
BatchPath_ZeroBased(role, idx) == ClipName(role, idx)

\* the path generate_audio_batch gives buffer number idx (0-based)
BatchPath(role, idx) == ClipName(role, idx + 1)

\* the enumerate loop of generate_audio_batch: buffer by buffer, write the
\* file and append its path
RECURSIVE BatchWrite(_, _, _, _)
BatchWrite(dir, role, audios, idx) ==
    IF idx >= Len(audios) THEN dir
    ELSE BatchWrite(WriteClip(dir, BatchPath(role, idx), audios[idx + 1]),
                    role, audios, idx + 1)
BatchFiles(role, audios) == [k \in 1..Len(audios) |-> BatchPath(role, k - 1)]

\* mutant: the clips written before the failure are returned
FailedTurnResult_Partial(audio_files) == audio_files

\* what generate_audio returns when a turn fails
FailedTurnResult(audio_files) == <<>>

\* mutant: the two voice ids change places
Manifest_SwappedVoices(c) ==
    [conversation_id |-> c.conversation_id,
     user_turns |-> c.user_turns,
     assistant_turns |-> c.assistant_turns,
     user_reference_id |-> c.assistant_reference_id,
     assistant_reference_id |-> c.user_reference_id]

Manifest(c) ==
    [conversation_id |-> c.conversation_id,
     user_turns |-> c.user_turns,
     assistant_turns |-> c.assistant_turns,
     user_reference_id |-> c.user_reference_id,
     assistant_reference_id |-> c.assistant_reference_id]

\* ------------------------------------------------------------- the state
VARIABLES
    mode,      \* which program runs: generate_dialog or generate_dialog_batch
    input,     \* the JSONL file, a sequence of conversation records
    run,       \* number of process starts so far
    pc,        \* "main", "gen", "check", "save", "done", "crashed"
    line,      \* 1-based index of the next line main reads
    rng,       \* the process-wide random source
    fs,        \* output_dir: conversation id -> directory
    call,      \* locals of generate_audio_for_conversation
    gen,       \* locals of generate_audio / generate_audio_batch
    sent,      \* history: requests of the conversation being processed
    wrote,     \* history: files written for the conversation being processed
    outcome,   \* history: what each line of this run ended as
    saves,     \* history: conversation id -> number of save_json calls
    faults,    \* faults of the service so far: a status other than 200, no
               \* answer, a body that does not unpack, a wrong buffer count
    asm,       \* the assembler applied to clip lists on its own
    picked     \* history: line -> the voices drawn for its record the first
               \* time it was processed, <<>> before that

vars == <<mode, input, run, pc, line, rng, fs, call, gen, sent, wrote,
          outcome, saves, faults, asm, picked>>

NoCall == [conversation_id |-> "", user_turns |-> <<>>, assistant_turns |-> <<>>,
           user_reference_id |-> "", assistant_reference_id |-> "",
           user_audio_files |-> <<>>, assistant_audio_files |-> <<>>,
           returned |-> {}, entry |-> EmptyDir]
\* mutant: the generator of the assistant role is the first one called
NoGen_AssistantFirst == [role |-> "assistant", idx |-> 0, audio_files |-> <<>>]
NoGen == [role |-> "user", idx |-> 0, audio_files |-> <<>>]
IdleAsm == [U |-> <<>>, A |-> <<>>, out |-> <<>>, pc |-> "idle"]

StartRng(m, s) == [seed |-> IF m = "batch" THEN Seed ELSE s, draws |-> 0]

Init ==
    /\ mode \in Modes
    /\ input \in InputFiles
    /\ run = 1
    /\ pc = "main"
    /\ line = 1
    /\ \E s \in UnseededStates : rng = StartRng(mode, s)
    /\ fs = [c \in ConvIds |-> EmptyDir]
    /\ call = NoCall
    /\ gen = NoGen
    /\ sent = <<>>
    /\ wrote = {}
    /\ outcome = [i \in 1..Len(input) |-> "Pending"]
    /\ saves = [c \in ConvIds |-> 0]
    /\ faults = 0
    /\ asm = IdleAsm
    /\ picked = [i \in 1..Len(input) |-> <<>>]

\* ------------------------------------------------------------ the actions
Turns(role) == IF role = "user" THEN call.user_turns ELSE call.assistant_turns
Reference(role) ==
    IF role = "user" THEN call.user_reference_id ELSE call.assistant_reference_id
ErrorLog == <<"error_log", 0>>
Combined == <<"combined", 0>>
ManifestFile == <<"manifest", 0>>

\* main: the next line names a conversation that is done; the call returns
SkipConversation ==
    /\ pc = "main" /\ line <= Len(input)
    /\ IsDone(fs[input[line].id])
    /\ call' = [NoCall EXCEPT !.conversation_id = input[line].id,
                              !.entry = fs[input[line].id]]
    /\ gen' = NoGen /\ sent' = <<>> /\ wrote' = {}
    /\ outcome' = [outcome EXCEPT ![line] = "SkippedDone"]
    /\ line' = line + 1
    /\ UNCHANGED <<mode, input, picked, run, pc, rng, fs, saves, faults, asm>>

\* generate_audio_for_conversation up to the first call of the generator:
\* draw the two voices, make the directory, collect the turns of each role
BeginConversation ==
    /\ pc = "main" /\ line <= Len(input)
    /\ ~IsDone(fs[input[line].id])
    /\ LET rec == input[line] IN
       /\ call' = [conversation_id |-> rec.id,
                   user_turns |-> CollectTurns(rec.data, "user"),
                   assistant_turns |-> CollectTurns(rec.data, "assistant"),
                   user_reference_id |-> RandomChoice(rng),
                   assistant_reference_id |-> RandomChoice(Advance(rng)),
                   user_audio_files |-> <<>>, assistant_audio_files |-> <<>>,
                   returned |-> {}, entry |-> fs[rec.id]]
       /\ fs' = [fs EXCEPT ![rec.id].exists = TRUE]
    /\ rng' = Advance(Advance(rng))
    /\ gen' = NoGen /\ sent' = <<>> /\ wrote' = {}
    /\ pc' = "gen"
    /\ picked' = IF picked[line] # <<>> THEN picked
                  ELSE [picked EXCEPT ![line] = <<RandomChoice(rng),
                                                  RandomChoice(Advance(rng))>>]
    /\ UNCHANGED <<mode, input, run, line, outcome, saves, faults, asm>>

\* the generator of gen.role returns files to generate_audio_for_conversation
Return(files) ==
    IF gen.role = "user"
    THEN /\ call' = [call EXCEPT !.user_audio_files = files,
                                 !.returned = @ \cup {"user"}]
         /\ gen' = [role |-> "assistant", idx |-> 0, audio_files |-> <<>>]
         /\ pc' = "gen"
    ELSE /\ call' = [call EXCEPT !.assistant_audio_files = files,
                                 !.returned = @ \cup {"assistant"}]
         /\ gen' = gen
         /\ pc' = "check"

TtsRequest(answer) ==
    [role |-> gen.role, turn |-> gen.idx + 1,
     texts |-> <<Turns(gen.role)[gen.idx + 1]>>,
     reference_id |-> Reference(gen.role),
     use_memory_cache |-> UseMemoryCache(gen.idx), answer |-> answer]

\* generate_tts: status 200, the content is written to the clip
TtsSuccess ==
    /\ mode = "single" /\ pc = "gen" /\ gen.idx < Len(Turns(gen.role))
    /\ LET name == ClipName(gen.role, gen.idx + 1) IN
       /\ fs' = [fs EXCEPT ![call.conversation_id] =
                               WriteClip(@, name, Wav(gen.role, gen.idx + 1))]
       /\ gen' = [gen EXCEPT !.idx = @ + 1, !.audio_files = Append(@, name)]
       /\ wrote' = wrote \cup {name}
    /\ sent' = Append(sent, TtsRequest("ok"))
    /\ UNCHANGED <<mode, input, picked, run, pc, line, rng, call, outcome, saves,
                   faults, asm>>

\* generate_tts: another status; log it, and generate_audio returns
TtsFailure ==
    /\ mode = "single" /\ pc = "gen" /\ gen.idx < Len(Turns(gen.role))
    /\ faults < MaxFaults
    /\ \E status \in ErrorStatuses :
         fs' = [fs EXCEPT ![call.conversation_id] =
                   AppendError(@, [request |-> TtsRequest("error"),
                                   status |-> status])]
    /\ wrote' = wrote \cup {ErrorLog}
    /\ sent' = Append(sent, TtsRequest("error"))
    /\ faults' = faults + 1
    /\ Return(FailedTurnResult(gen.audio_files))
    /\ UNCHANGED <<mode, input, picked, run, line, rng, outcome, saves, asm>>

\* generate_tts: requests.post raises (connection refused, timeout); no
\* handler up to the top of the process
TtsRaise ==
    /\ mode = "single" /\ pc = "gen" /\ gen.idx < Len(Turns(gen.role))
    /\ faults < MaxFaults
    /\ sent' = Append(sent, TtsRequest("raised"))
    /\ faults' = faults + 1
    /\ pc' = "crashed"
    /\ UNCHANGED <<mode, input, picked, run, line, rng, fs, call, gen, wrote, outcome,
                   saves, asm>>

\* generate_audio: the loop is over, return audio_files
GenerateAudioReturn ==
    /\ mode = "single" /\ pc = "gen" /\ gen.idx = Len(Turns(gen.role))
    /\ Return(gen.audio_files)
    /\ UNCHANGED <<mode, input, picked, run, line, rng, fs, sent, wrote, outcome,
                   saves, faults, asm>>

\* buffers: how many audio buffers the answer carries
BatchRequest(answer, buffers) ==
    [role |-> gen.role, turn |-> 0, texts |-> Turns(gen.role),
     reference_id |-> Reference(gen.role), answer |-> answer,
     buffers |-> buffers]

\* generate_audio_batch: status 200 and a body that unpacks to m buffers
\* (m other than the number of texts is a fault of the service); each
\* buffer is written under its 1-based position and the paths are returned
BatchSuccess ==
    /\ mode = "batch" /\ pc = "gen"
    /\ \E m \in 0..MaxBuffers :
         LET audios == [k \in 1..m |-> Wav(gen.role, k)]
             files == BatchFiles(gen.role, audios)
         IN /\ m # Len(Turns(gen.role)) => faults < MaxFaults
            /\ faults' = IF m # Len(Turns(gen.role)) THEN faults + 1 ELSE faults
            /\ fs' = [fs EXCEPT ![call.conversation_id] =
                                    BatchWrite(@, gen.role, audios, 0)]
            /\ wrote' = wrote \cup {files[k] : k \in 1..Len(files)}
            /\ Return(files)
            /\ sent' = Append(sent, BatchRequest("ok", m))
    /\ UNCHANGED <<mode, input, picked, run, line, rng, outcome, saves, asm>>

\* generate_audio_batch: another status; log it once and return []
BatchFailure ==
    /\ mode = "batch" /\ pc = "gen"
    /\ faults < MaxFaults
    /\ \E status \in ErrorStatuses :
         fs' = [fs EXCEPT ![call.conversation_id] =
                   AppendError(@, [request |-> BatchRequest("error", 0),
                                   status |-> status])]
    /\ wrote' = wrote \cup {ErrorLog}
    /\ sent' = Append(sent, BatchRequest("error", 0))
    /\ faults' = faults + 1
    /\ Return(<<>>)
    /\ UNCHANGED <<mode, input, picked, run, line, rng, outcome, saves, asm>>

\* generate_audio_batch: requests.post raises, or the body of a 200
\* response does not unpack (ormsgpack.unpackb raises); no handler
BatchRaise ==
    /\ mode = "batch" /\ pc = "gen"
    /\ faults < MaxFaults
    /\ \E answer \in {"raised", "malformed"} :
         sent' = Append(sent, BatchRequest(answer, 0))
    /\ faults' = faults + 1
    /\ pc' = "crashed"
    /\ UNCHANGED <<mode, input, picked, run, line, rng, fs, call, gen, wrote, outcome,
                   saves, asm>>

\* generate_audio_for_conversation: one of the lists is empty, return
AbortOnFailure ==
    /\ pc = "check"
    /\ ShouldAbort(call.user_audio_files, call.assistant_audio_files)
    /\ outcome' = [outcome EXCEPT ![line] = "AbortedOnFailure"]
    /\ line' = line + 1
    /\ pc' = "main"
    /\ UNCHANGED <<mode, input, picked, run, rng, fs, call, gen, sent, wrote, saves,
                   faults, asm>>

\* merge_audio_files: read the clips of both lists, export the combined track
MergeAudioFiles ==
    /\ pc = "check"
    /\ ~ShouldAbort(call.user_audio_files, call.assistant_audio_files)
    /\ LET dir == fs[call.conversation_id] IN
         fs' = [fs EXCEPT ![call.conversation_id].combined =
                   <<MergeAudio(ReadClips(dir, call.user_audio_files),
                                ReadClips(dir, call.assistant_audio_files))>>]
    /\ wrote' = wrote \cup {Combined}
    /\ pc' = "save"
    /\ UNCHANGED <<mode, input, picked, run, line, rng, call, gen, sent, outcome,
                   saves, faults, asm>>

\* save_json, and the call returns to main
SaveJson ==
    /\ pc = "save"
    /\ fs' = [fs EXCEPT ![call.conversation_id].manifest = <<Manifest(call)>>]
    /\ saves' = [saves EXCEPT ![call.conversation_id] = @ + 1]
    /\ wrote' = wrote \cup {ManifestFile}
    /\ outcome' = [outcome EXCEPT ![line] = "ManifestWritten"]
    /\ line' = line + 1
    /\ pc' = "main"
    /\ UNCHANGED <<mode, input, picked, run, rng, call, gen, sent, faults, asm>>

\* main: the file is read to its end, the process exits
EndOfFile ==
    /\ pc = "main" /\ line > Len(input)
    /\ pc' = "done"
    /\ UNCHANGED <<mode, input, picked, run, line, rng, fs, call, gen, sent, wrote,
                   outcome, saves, faults, asm>>

\* the program is started again on the same input and output directory
Restart ==
    /\ pc \in {"done", "crashed"} /\ run < MaxRuns
    /\ run' = run + 1
    /\ pc' = "main"
    /\ line' = 1
    /\ \E s \in UnseededStates : rng' = StartRng(mode, s)
    /\ call' = NoCall /\ gen' = NoGen /\ sent' = <<>> /\ wrote' = {}
    /\ outcome' = [i \in 1..Len(input) |-> "Pending"]
    /\ UNCHANGED <<mode, input, picked, fs, saves, faults, asm>>

Next ==
    \/ SkipConversation
    \/ BeginConversation
    \/ TtsSuccess
    \/ TtsFailure
    \/ TtsRaise
    \/ GenerateAudioReturn
    \/ BatchSuccess
    \/ BatchFailure
    \/ BatchRaise
    \/ AbortOnFailure
    \/ MergeAudioFiles
    \/ SaveJson
    \/ EndOfFile
    \/ Restart

Spec == Init /\ [][Next]_vars

\* ------------------------------------------- the assembler on its own
\* merge_audio_files applied to any two lists of clips, the clips given by
\* their content
AsmClips == {Wav("user", 1), Wav("assistant", 1)}
ClipLists == {<<>>} \cup UNION {[1..n -> AsmClips] : n \in 1..MaxClips}

AsmInit ==
    /\ mode = "single"
    /\ input = <<[id |-> "c1", data |-> DataOf(<<"UA">>)]>>
    /\ run = 1 /\ pc = "done" /\ line = 1
    /\ rng = StartRng("single", 0)
    /\ fs = [c \in ConvIds |-> EmptyDir]
    /\ call = NoCall /\ gen = NoGen /\ sent = <<>> /\ wrote = {}
    /\ outcome = <<"Pending">>
    /\ saves = [c \in ConvIds |-> 0]
    /\ faults = 0
    /\ picked = <<<<>>>>
    /\ \E u, a \in ClipLists :
         asm = [U |-> u, A |-> a, out |-> <<>>, pc |-> "ready"]

AsmMerge ==
    /\ asm.pc = "ready"
    /\ asm' = [asm EXCEPT !.out = MergeAudio(asm.U, asm.A), !.pc = "exported"]
    /\ UNCHANGED <<mode, input, picked, run, pc, line, rng, fs, call, gen, sent, wrote,
                   outcome, saves, faults>>

AsmNext == AsmMerge

SpecAsm == AsmInit /\ [][AsmNext]_vars

\* ------------------------------------------------- reading the histories
Roles == {"user", "assistant"}
InCall == call.conversation_id # ""
Result(role) ==
    IF role = "user" THEN call.user_audio_files ELSE call.assistant_audio_files
SentOf(role) == SelectSeq(sent, LAMBDA q : q.role = role)
Served(q) == q.answer = "ok"
ClipsWritten(role) == {f \in wrote : f[1] = role}
ManifestAtEntry == call.entry.exists /\ call.entry.manifest # <<>>
TerminalStates == {"SkippedDone", "ManifestWritten", "AbortedOnFailure"}
Min(a, b) == IF a <= b THEN a ELSE b
Failed(q) == q.answer = "error"
FailedRequests == SelectSeq(sent, Failed)
ClipsOf(dir, role) == {f \in DOMAIN dir.clips : f[1] = role}
\* the clip files of a role are those of the directory at entry, unchanged
RoleClipsUntouched(role) ==
    LET now == fs[call.conversation_id]
    IN /\ ClipsWritten(role) = {}
       /\ ClipsOf(now, role) = ClipsOf(call.entry, role)
       /\ \A f \in ClipsOf(now, role) : now.clips[f] = call.entry.clips[f]
\* the error log is the one at entry followed by one record for each
\* request of this processing that got a non-success status, in order
OneRecordPerFailure ==
    LET log == fs[call.conversation_id].errlog
        old == call.entry.errlog
    IN /\ Len(log) = Len(old) + Len(FailedRequests)
       /\ SubSeq(log, 1, Len(old)) = old
       /\ \A j \in 1..Len(FailedRequests) :
            /\ log[Len(old) + j].request = FailedRequests[j]
            /\ log[Len(old) + j].status \in ErrorStatuses

\* ------------------------------------------------------------- the claims

\* C1: a call of generate_audio_for_conversation (either variant) that finds
\* the manifest {id}.json in the conversation directory sends no synthesis
\* request and leaves the directory (clips, combined track, manifest, error
\* log) as it found it.
C1_Resumable ==
    (InCall /\ ManifestAtEntry) =>
        /\ sent = <<>>
        /\ wrote = {}
        /\ fs[call.conversation_id] = call.entry

\* a done conversation met again, in a second run, and the call has returned
C1_Witness ==
    /\ InCall /\ ManifestAtEntry
    /\ run = 2 /\ pc = "main" /\ line > 1
    /\ outcome[line - 1] = "SkippedDone"

\* C2: when a user turn of a conversation gets a non-success response, no
\* request is sent for an assistant turn of that conversation and no
\* assistant clip is written during that processing.
C2_NoAssistantAfterUserFailure ==
    (InCall /\ \E i \in 1..Len(sent) :
                  sent[i].role = "user" /\ sent[i].answer = "error") =>
        /\ SentOf("assistant") = <<>>
        /\ ClipsWritten("assistant") = {}

\* C3: whenever the generator has returned the empty list for the user role
\* or for the assistant role, that processing writes neither the combined
\* track nor the manifest, and the conversation is not done afterwards.
C3_AbortLeavesNoArtifacts ==
    (InCall /\ \E r \in call.returned : Result(r) = <<>>) =>
        /\ Combined \notin wrote
        /\ ManifestFile \notin wrote
        /\ pc # "save"
        /\ ~IsDone(fs[call.conversation_id])

\* the user role gave clips, the assistant role none, and the call returned
C3_Witness ==
    /\ InCall /\ call.returned = Roles
    /\ call.user_audio_files # <<>> /\ call.assistant_audio_files = <<>>
    /\ pc = "main" /\ outcome[line - 1] = "AbortedOnFailure"

\* C4: for clip lists U and A of any lengths, the combined track is
\* U[i], silence, A[i], silence for i = 1..min(|U|,|A|), then the leftover
\* of the longer list in its order with no silence; nothing follows the last
\* silence when the lengths are equal; every clip appears exactly once.
C4_MergeOrder ==
    asm.pc = "exported" =>
        LET U == asm.U
            A == asm.A
            n == Min(Len(U), Len(A))
            longer == IF Len(U) > Len(A) THEN U ELSE A
            out == asm.out
        IN /\ Len(out) = 4 * n + (Len(longer) - n)
           /\ \A i \in 1..n :
                /\ out[4 * (i - 1) + 1] = U[i]
                /\ out[4 * (i - 1) + 2] = Silent(SilenceMs)
                /\ out[4 * (i - 1) + 3] = A[i]
                /\ out[4 * (i - 1) + 4] = Silent(SilenceMs)
           /\ \A j \in 1..(Len(longer) - n) : out[4 * n + j] = longer[n + j]
           /\ Cardinality({k \in 1..Len(out) : out[k].kind = "wav"})
                  = Len(U) + Len(A)

\* the assistant list is the longer one and clips were interleaved before
C4_Witness ==
    /\ asm.pc = "exported"
    /\ Len(asm.A) > Len(asm.U) /\ Len(asm.U) >= 1

\* C5: in single-turn mode generate_audio sends the requests of a role in
\* list order; when the request of turn k is the first to fail, no request
\* of a later turn is sent and the empty list is returned, never the clips
\* written so far; the n paths are returned, in order, only when all n
\* requests succeed.
C5_ShortCircuit ==
    (mode = "single" /\ InCall) =>
        \A r \in Roles :
            LET q == SentOf(r)
                n == Len(Turns(r))
            IN /\ Len(q) <= n
               /\ \A k \in 1..Len(q) :
                    /\ q[k].turn = k
                    /\ q[k].texts = <<Turns(r)[k]>>
                    /\ ~Served(q[k]) => k = Len(q)
               /\ r \in call.returned =>
                    IF \E k \in 1..Len(q) : ~Served(q[k])
                    THEN Result(r) = <<>>
                    ELSE /\ Len(q) = n
                         /\ Result(r) = [k \in 1..n |-> ClipName(r, k)]

\* the second of two user turns failed after the first clip was written, and
\* generate_audio has returned
C5_Witness ==
    /\ mode = "single" /\ InCall /\ "user" \in call.returned
    /\ Len(SentOf("user")) = 2
    /\ Served(SentOf("user")[1]) /\ ~Served(SentOf("user")[2])
    /\ ClipName("user", 1) \in wrote

\* C6: whatever the outcomes of the synthesis requests, the top-level loop
\* goes on: when the process has ended, every record of the input file has
\* reached SkippedDone, ManifestWritten or AbortedOnFailure.
C6_EveryRecordProcessed ==
    pc \in {"done", "crashed"} =>
        \A i \in 1..Len(input) : outcome[i] \in TerminalStates

\* C7: a request that times out, cannot connect or is answered with a body
\* that does not decode is handled like a non-success status: an error
\* record is appended to the error log and the failure value is returned;
\* the process does not end.
C7_EveryFailureReported ==
    \A i \in 1..Len(sent) :
        sent[i].answer \in {"raised", "malformed"} =>
            /\ ErrorLog \in wrote
            /\ sent[i].role \in call.returned
            /\ Result(sent[i].role) = <<>>
            /\ pc # "crashed"

\* C8: over any sequence of runs and any input file, also one that lists an
\* id more than once, the manifest of a conversation is written at most
\* once, and once it exists its content, the combined track and the clips of
\* the conversation never change.
C8_ManifestWrittenOnce ==
    /\ [](\A c \in ConvIds : saves[c] <= 1)
    /\ [][\A c \in ConvIds :
            fs[c].manifest # <<>> =>
                /\ fs'[c].manifest = fs[c].manifest
                /\ fs'[c].combined = fs[c].combined
                /\ fs'[c].clips = fs[c].clips]_vars

\* a conversation whose manifest was written is met again and skipped
C8_Witness ==
    \E i \in 1..Len(input) :
        /\ outcome[i] = "SkippedDone"
        /\ saves[input[i].id] = 1
        /\ fs[input[i].id].manifest # <<>>

\* C9: whenever the batch request of a role with n utterances gets a success
\* response, generate_audio_batch writes exactly the n files
\* {role}_turn_1.wav .. {role}_turn_n.wav and returns those n paths in order.
C9_BatchOneClipPerTurn ==
    (mode = "batch" /\ InCall) =>
        \A r \in call.returned :
            (\E i \in 1..Len(sent) : sent[i].role = r /\ Served(sent[i])) =>
                LET n == Len(Turns(r))
                IN /\ Result(r) = [k \in 1..n |-> ClipName(r, k)]
                   /\ ClipsWritten(r) = {ClipName(r, k) : k \in 1..n}

\* C10: for a success batch response carrying the buffers b1..bm,
\* generate_audio_batch writes bk to {role}_turn_k.wav for every k in 1..m
\* and the k-th returned path is that file, whatever the utterances are;
\* one request is sent for the whole role.
C10_BatchRoundTrip ==
    (mode = "batch" /\ InCall) =>
        \A r \in Roles :
            /\ Len(SentOf(r)) <= 1
            /\ r \in call.returned => Len(SentOf(r)) = 1
            /\ (r \in call.returned /\ Served(SentOf(r)[1])) =>
                 LET m == SentOf(r)[1].buffers
                 IN /\ Result(r) = [k \in 1..m |-> ClipName(r, k)]
                    /\ ClipsWritten(r) = {ClipName(r, k) : k \in 1..m}
                    /\ \A k \in 1..m :
                         fs[call.conversation_id].clips[ClipName(r, k)]
                             = Wav(r, k)

\* the response for two utterances carried three buffers
C10_Witness ==
    /\ mode = "batch" /\ InCall /\ "user" \in call.returned
    /\ Len(call.user_turns) = 2
    /\ Len(SentOf("user")) = 1 /\ Served(SentOf("user")[1])
    /\ SentOf("user")[1].buffers = 3

\* C11: when the batch request of a role gets a non-success response,
\* generate_audio_batch creates or changes no clip file of that role,
\* appends exactly one record to the error log of the conversation and
\* returns the empty list.
C11_BatchFailureAllOrNothing ==
    (mode = "batch" /\ InCall) =>
        /\ OneRecordPerFailure
        /\ \A r \in call.returned :
             Failed(SentOf(r)[1]) =>
                 /\ Result(r) = <<>>
                 /\ RoleClipsUntouched(r)

\* the user batch failed over a directory that held user clips of an
\* earlier processing
C11_Witness ==
    /\ mode = "batch" /\ InCall /\ "user" \in call.returned
    /\ Failed(SentOf("user")[1])
    /\ ClipName("user", 1) \in DOMAIN call.entry.clips
    /\ Len(fs[call.conversation_id].errlog) = 1

IsPrefix(s, t) == Len(s) <= Len(t) /\ SubSeq(t, 1, Len(s)) = s
\* the file at the clip path of request q is what it was at entry
ClipPathUntouched(q) ==
    LET f == ClipName(q.role, q.turn)
        now == fs[call.conversation_id]
    IN /\ f \notin wrote
       /\ f \in DOMAIN now.clips <=> f \in DOMAIN call.entry.clips
       /\ f \in DOMAIN now.clips => now.clips[f] = call.entry.clips[f]

\* C12: in the single-turn variant a request that gets a non-success
\* response writes nothing to the clip path of its turn, appends exactly one
\* record to error_log.txt of the conversation, and the generator of the
\* role returns failure; over any sequence of runs no record already in an
\* error log is removed or rewritten.
C12_SingleTurnFailure ==
    /\ []((mode = "single" /\ InCall) =>
            /\ OneRecordPerFailure
            /\ \A j \in 1..Len(FailedRequests) :
                 /\ ClipPathUntouched(FailedRequests[j])
                 /\ FailedRequests[j].role \in call.returned =>
                        Result(FailedRequests[j].role) = <<>>)
    /\ [][\A c \in ConvIds : IsPrefix(fs[c].errlog, fs'[c].errlog)]_vars

\* the request for the first user turn failed in a later run, over a
\* directory that held the clip of that turn and an error log with a record
\* from an earlier processing
C12_Witness ==
    /\ mode = "single" /\ InCall /\ run > 1
    /\ Len(call.entry.errlog) = 1
    /\ Len(fs[call.conversation_id].errlog) = 2
    /\ Len(FailedRequests) = 1
    /\ FailedRequests[1].role = "user" /\ FailedRequests[1].turn = 1
    /\ ClipName("user", 1) \in DOMAIN call.entry.clips
    /\ "user" \in call.returned

\* C13: in the single-turn variant the first request sent for a role in a
\* processing of a conversation carries use_memory_cache = "never" and every
\* later request of the role carries "on-demand"; the same holds in every
\* later run that processes the conversation again.
C13_CacheHint ==
    (mode = "single" /\ InCall) =>
        \A r \in Roles : \A j \in 1..Len(SentOf(r)) :
            /\ SentOf(r)[j].turn = j
            /\ SentOf(r)[j].use_memory_cache =
                   IF j = 1 THEN "never" ELSE "on-demand"

\* a conversation left without manifest by an earlier run is processed again
\* and both turns of the assistant role have been requested
C13_Witness ==
    /\ mode = "single" /\ InCall /\ run > 1
    /\ call.entry.exists /\ ~ManifestAtEntry
    /\ Len(SentOf("user")) = 2 /\ Len(SentOf("assistant")) = 2
    /\ SentOf("assistant")[2].use_memory_cache = "on-demand"

\* the utterances of a role in a record, in exchange order
Utterances(data, role) ==
    LET has == SelectSeq([e \in 1..Len(data) |-> e],
                         LAMBDA e : role \in DOMAIN data[e])
    IN [k \in 1..Len(has) |-> data[has[k]][role]]
RecordsOf(c) == {i \in 1..Len(input) : input[i].id = c}

\* C14: a manifest on disk carries the id of its conversation and, as
\* user_turns and assistant_turns, the user and the assistant utterances of
\* the record in exchange order; in the processing that wrote it every
\* request of a role was sent with the voice id the manifest names for
\* that role.
C14_ManifestFidelity ==
    /\ \A c \in ConvIds :
         fs[c].manifest # <<>> =>
            /\ RecordsOf(c) # {}
            /\ \A i \in RecordsOf(c) :
                 /\ fs[c].manifest[1].conversation_id = input[i].id
                 /\ fs[c].manifest[1].user_turns =
                        Utterances(input[i].data, "user")
                 /\ fs[c].manifest[1].assistant_turns =
                        Utterances(input[i].data, "assistant")
    /\ (InCall /\ ManifestFile \in wrote) =>
         LET m == fs[call.conversation_id].manifest[1] IN
           /\ SentOf("user") # <<>> /\ SentOf("assistant") # <<>>
           /\ \A j \in 1..Len(SentOf("user")) :
                SentOf("user")[j].reference_id = m.user_reference_id
           /\ \A j \in 1..Len(SentOf("assistant")) :
                SentOf("assistant")[j].reference_id = m.assistant_reference_id

\* a manifest was written for a record whose second exchange has no
\* assistant utterance, with different voices for the two roles
C14_Witness ==
    /\ InCall /\ ManifestFile \in wrote
    /\ Len(fs[call.conversation_id].manifest[1].user_turns) = 2
    /\ Len(fs[call.conversation_id].manifest[1].assistant_turns) = 1
    /\ fs[call.conversation_id].manifest[1].user_reference_id #
           fs[call.conversation_id].manifest[1].assistant_reference_id

\* the directory held output of an earlier processing and no manifest
PartialAtEntry ==
    /\ InCall /\ call.entry.exists /\ ~ManifestAtEntry
    /\ (call.entry.clips # <<>> \/ call.entry.errlog # <<>>)

\* C15: when a conversation whose directory holds partial output and no
\* manifest is processed again, the first request is again the one for the
\* first user turn, the combined track is built only from clips written in
\* this processing, once the manifest is written every clip file of the
\* directory was written in this processing, and the error log still
\* starts with its earlier records.
C15_RetryFromScratch ==
    PartialAtEntry =>
        LET dir == fs[call.conversation_id] IN
        /\ (sent # <<>> /\ call.user_turns # <<>>) =>
              /\ sent[1].role = "user"
              /\ mode = "single" => sent[1].turn = 1
              /\ sent[1].texts[1] = call.user_turns[1]
        /\ Combined \in wrote =>
              \A r \in Roles : \A k \in 1..Len(Result(r)) : Result(r)[k] \in wrote
        /\ ManifestFile \in wrote => \A f \in DOMAIN dir.clips : f \in wrote
        /\ IsPrefix(call.entry.errlog, dir.errlog)

\* while a record is being worked on, it is the record of the current line,
\* every earlier line of the run has ended and no later one has begun
OneRecordAtATime ==
    pc \in {"gen", "check", "save"} =>
        /\ line <= Len(input)
        /\ call.conversation_id = input[line].id
        /\ \A i \in 1..Len(input) :
             /\ i < line => outcome[i] \in TerminalStates
             /\ i >= line => outcome[i] = "Pending"
\* the requests of the user role come first, then those of the assistant
\* role, then the combined track, then the manifest
RolesInOrder ==
    InCall =>
        /\ \A i, j \in 1..Len(sent) :
             (i < j /\ sent[i].role = "assistant") => sent[j].role = "assistant"
        /\ SentOf("assistant") # <<>> => "user" \in call.returned
        /\ Combined \in wrote => call.returned = Roles
        /\ ManifestFile \in wrote => Combined \in wrote
\* a step writes only into the directory of the record of the current line,
\* sends a request only before the merge, and moves to the next line only
SequentialStep ==
    /\ \A c \in ConvIds :
         fs'[c] # fs[c] => (line <= Len(input) /\ c = input[line].id)
    /\ (sent' # sent /\ sent' # <<>>) =>
         /\ pc = "gen" /\ Len(sent') = Len(sent) + 1
         /\ SubSeq(sent', 1, Len(sent)) = sent
         /\ Combined \notin wrote /\ ManifestFile \notin wrote
    /\ run' = run => line' \in {line, line + 1}
    /\ (Combined \in wrote' /\ Combined \notin wrote) => ManifestFile \notin wrote'

\* C16: conversations are processed in input-file order one at a time, so
\* all requests and writes of record k come before any of record k+1; in a
\* conversation all user requests come before any assistant request, and
\* the merge and then the manifest write come after the last assistant
\* request.
C16_SequentialOrder ==
    /\ [](OneRecordAtATime /\ RolesInOrder)
    /\ [][SequentialStep]_vars

\* the second record, of another conversation, is at its manifest write
\* after the first one got its manifest in the same run
C16_Witness ==
    /\ pc = "save" /\ line = 2 /\ input[1].id # input[2].id
    /\ outcome[1] = "ManifestWritten"
    /\ Len(SentOf("user")) > 0 /\ Len(SentOf("assistant")) > 0
    /\ Combined \in wrote

\* C17: in every state of either variant, if the manifest of a conversation
\* exists then its combined track exists and a clip file exists for every
\* utterance listed in the manifest's user_turns and assistant_turns.
C17_DoneImpliesComplete ==
    \A c \in ConvIds :
        fs[c].manifest # <<>> =>
            /\ fs[c].combined # <<>>
            /\ \A n \in 1..Len(fs[c].manifest[1].user_turns) :
                 ClipName("user", n) \in DOMAIN fs[c].clips
            /\ \A n \in 1..Len(fs[c].manifest[1].assistant_turns) :
                 ClipName("assistant", n) \in DOMAIN fs[c].clips

\* the call for the record of the line before the current one has returned
CallEnded == InCall /\ pc \in {"main", "done"} /\ line > 1

\* C18: when the processing of a record that was not done has ended and
\* every request sent in it was answered with success, the record ended in
\* ManifestWritten, not in AbortedOnFailure, and the combined track and the
\* manifest are on disk; the record may have a role without utterances.
C18_SuccessLeadsToCompletion ==
    (CallEnded /\ ~ManifestAtEntry /\ \A j \in 1..Len(sent) : Served(sent[j])) =>
        /\ outcome[line - 1] = "ManifestWritten"
        /\ fs[call.conversation_id].combined # <<>>
        /\ fs[call.conversation_id].manifest # <<>>

\* C19: in the batch variant, where the random source is seeded at start,
\* a record that is processed in two runs over the same input file gets the
\* same user voice and the same assistant voice in both, whatever other
\* conversations are done or have failed when each run starts.
C19_ReproducibleVoices ==
    (mode = "batch" /\ pc \in {"gen", "check", "save"}) =>
        picked[line] = <<call.user_reference_id, call.assistant_reference_id>>
====
